---------------------------- MODULE Spec2Model ----------------------------
(***************************************************************************)
(* Model of src/JestExt/process-listeners.ts of vscode-jest: the           *)
(* AbstractProcessListener dispatch, the LongRunMonitor timer and the      *)
(* RunTestListener run-lifecycle state machine, for one listener attached  *)
(* to one JestProcess (Spec); a LongRunMonitor driven alone (SpecMonitor); *)
(* a ListTestFileListener attached to one listing process (SpecList).      *)
(*                                                                         *)
(* A text is the sequence of its "\n"-separated segments (JavaScript's     *)
(* text.split("\n")): "" is <<"">>, "a\n" is <<"a", "">>.  Segments come   *)
(* from a fixed alphabet; what String.includes and each regular            *)
(* expression of the source answer on a segment is tabulated below.        *)
(*                                                                         *)
(* The variable log is the trace of the listener: every step appends a     *)
(* marker (kind "in") naming what was delivered, then the calls the        *)
(* handler made on its collaborators, in the order the code makes them.    *)
(***************************************************************************)
EXTENDS Integers, Sequences, FiniteSets, TLC

VARIABLES
  request,      \* process.request, immutable
  stopReason,   \* process.stopReason: None or Some("on-demand")
  settings,     \* session.context.settings
  thresholdMs,  \* LongRunMonitor.thresholdMs, set by the constructor
  timer,        \* LongRunMonitor.timer: None or Some(id of a timeout)
  timeouts,     \* the runtime's pending timeouts (ids handed out by setTimeout)
  nextId,       \* the id the next setTimeout returns
  runInfo,      \* RunTestListener.runInfo: None or Some(RunInfo)
  exitCode,     \* the listener's exitCode field: None or Some(code)
  buffer,       \* ListTestFileListener.buffer
  stderrOutput, \* ListTestFileListener.stderrOutput
  prompts,      \* showInformationMessage promises not settled yet
  phase,        \* the supervisor's view of the process lifetime
  dispatched,   \* text/JSON payloads delivered so far
  log           \* markers and collaborator calls, in order

vars == <<request, stopReason, settings, thresholdMs, timer, timeouts, nextId,
          runInfo, exitCode, buffer, stderrOutput, prompts, phase, dispatched,
          log>>

-----------------------------------------------------------------------------
(* Bounds of the model *)

MaxDispatch == 2

\* start() and cancel() calls made on a monitor that is driven alone
MaxMonitorOps == 4

\* text payloads delivered to a listing listener
MaxListChunks == 3

-----------------------------------------------------------------------------
(* Optional values: undefined / null is None, a value v is Some(v) *)

None == <<>>
Some(v) == <<v>>
IsSome(o) == o /= <<>>
Get(o) == o[1]

Proc == "jestProcess"

-----------------------------------------------------------------------------
(* Text: segments and what the source's matchers answer on them *)

SegStart5       == "onRunStart: numTotalTestSuites: 5"
SegStart12      == "onRunStart: numTotalTestSuites: 12"
SegStartBare    == "onRunStart"
SegComplete     == "onRunComplete"
SegExecError    == "onRunComplete: execError: boom"
SegWritten      == "Test results written to /tmp/out.json"
SegPass         == "PASS a.test.js"
SegWatchUsage   == "Watch Usage: Press w to show more."
SegSnapshot     == "1 snapshot failed"
SegSnapshotAnsi == "ESC[1mESC[31m 1 snapshot failedESC[39mESC[22m from 1 test suite"
SegNoWatch      == "--watch is not supported without git/hg, please use --watchAll"
SegSuiteFailed  == "Test suite failed to run"
SegFatalOutside == "fatal: /work/a.test.js: '/work/a.test.js' is outside repository"
SegAnsiOnly     == "ESC[2K"

\* cleanAnsi of ../helpers strips the control sequences of a text
cleanAnsiSeg(seg) ==
  CASE seg = SegSnapshotAnsi -> " 1 snapshot failed from 1 test suite"
    [] seg = SegAnsiOnly     -> ""
    [] OTHER                 -> seg

cleanAnsi(text) == [i \in 1..Len(text) |-> cleanAnsiSeg(text[i])]

\* text.length <= 0
IsEmptyText(text) == text = <<"">>

SegsWith(text, S) == \E i \in 1..Len(text) : text[i] \in S

\* text.includes('Watch Usage')
includesWatchUsage(text) == SegsWith(text, {SegWatchUsage})

\* output.includes('onRunStart'): case-sensitive substring
includesOnRunStart(text) == SegsWith(text, {SegStart5, SegStart12, SegStartBare})

\* output.includes('onRunComplete')
includesOnRunComplete(text) == SegsWith(text, {SegComplete, SegExecError})

\* SnapshotFailRegex.test(data)
SnapshotFailRegex(text) ==
  SegsWith(text, {SegSnapshot, " 1 snapshot failed from 1 test suite", SegSnapshotAnsi})

\* IS_OUTSIDE_REPOSITORY_REGEXP.test(data): the three fragments in this order,
\* anything (line breaks included) between them
IS_OUTSIDE_REPOSITORY_REGEXP(text) ==
  \E i, j \in 1..Len(text) :
     i < j /\ text[i] = SegSuiteFailed /\ text[j] = SegFatalOutside

\* WATCH_IS_NOT_SUPPORTED_REGEXP.test(data): anchored at the start of a line
WATCH_IS_NOT_SUPPORTED_REGEXP(text) == SegsWith(text, {SegNoWatch})

\* output.match(RUN_EXEC_ERROR): group 1 of the first match
RUN_EXEC_ERROR(text) ==
  IF SegsWith(text, {SegExecError}) THEN Some("boom") ELSE None

\* text.match(RUN_START_TEST_SUITES_REGEX): group 1 of the first match, as text
RUN_START_TEST_SUITES_REGEX(text) ==
  LET hits == {i \in 1..Len(text) : text[i] \in {SegStart5, SegStart12}}
  IN  IF hits = {} THEN None
      ELSE LET first == CHOOSE i \in hits : \A k \in hits : i <= k
           IN  Some(IF text[first] = SegStart5 THEN "5" ELSE "12")

\* Number(digits)
Number(digits) == IF digits = "5" THEN 5 ELSE 12

\* CONTROL_MESSAGES matches a whole line, with the line break that ends it, that
\* starts with one of the three prefixes and has at least one more character
IsControlLine(seg) ==
  seg \in {SegStart5, SegStart12, SegExecError, SegWritten}

RECURSIVE StripControl(_, _)
StripControl(text, i) ==
  IF i > Len(text) THEN <<>>
  ELSE IF i < Len(text) /\ IsControlLine(text[i])
       THEN StripControl(text, i + 1)
       ELSE <<text[i]>> \o StripControl(text, i + 1)


-----------------------------------------------------------------------------
(* The listener's mutable state while a handler runs: the fields a handler  *)
(* may assign, and out, the calls it has made so far.                       *)

Cur(marker) ==
  [stopReason |-> stopReason, timer |-> timer, timeouts |-> timeouts,
   nextId |-> nextId, runInfo |-> runInfo, exitCode |-> exitCode,
   buffer |-> buffer, stderrOutput |-> stderrOutput,
   prompts |-> prompts, out |-> <<marker>>]

call(s, c) == [s EXCEPT !.out = Append(@, c)]

\* this.onRunEvent.fire(event)
fire(s, ev) == call(s, [kind |-> "event", ev |-> ev])

\* this.logging(level, message)
logging(s, level, msg) == call(s, [kind |-> "logging", level |-> level, msg |-> msg])

\* session.scheduleProcess(request)
scheduleProcess(s, req) == call(s, [kind |-> "scheduleProcess", request |-> req])

\* process.stop(): the supervisor's JestProcess records why it was stopped
stop(s) == call([s EXCEPT !.stopReason = Some("on-demand")], [kind |-> "stop"])

Request(type) == [type |-> type, updateSnapshot |-> FALSE, baseRequest |-> None]

-----------------------------------------------------------------------------
(* LongRunMonitor *)

DEFAULT_LONG_RUN_THRESHOLD == 60000

OptUnset  == [is |-> "undefined"]
OptNull   == [is |-> "null"]
OptNum(n) == [is |-> "number", n |-> n]
OptStr(v) == [is |-> "string", v |-> v]

\* mutant: a falsy option (0 as well) counts as unset
LongRunMonitor_falsyIsUnset(option) ==
  IF option.is \in {"undefined", "null"} \/ (option.is = "number" /\ option.n = 0)
  THEN DEFAULT_LONG_RUN_THRESHOLD
  ELSE IF option.is = "number" /\ option.n > 0 THEN option.n
  ELSE -1

\* constructor: the threshold the option resolves to (option == null is true
\* of undefined and of null)
LongRunMonitor(option) ==
  IF option.is \in {"undefined", "null"} THEN DEFAULT_LONG_RUN_THRESHOLD
  ELSE IF option.is = "number" /\ option.n > 0 THEN option.n
  ELSE -1

\* mutant: the timeout is cleared but the field keeps its id
cancel_keepsField(s) ==
  IF IsSome(s.timer)
  THEN call([s EXCEPT !.timeouts = @ \ {Get(s.timer)}],
            [kind |-> "clearTimeout", id |-> Get(s.timer)])
  ELSE s

\* mutant: the field is reset but the timeout is not cleared
cancel_keepsTimeout(s) == [s EXCEPT !.timer = None]

cancel(s) ==
  IF IsSome(s.timer)
  THEN call([s EXCEPT !.timeouts = @ \ {Get(s.timer)}, !.timer = None],
            [kind |-> "clearTimeout", id |-> Get(s.timer)])
  ELSE s

\* mutant: a start() on an armed monitor arms a second timer beside the first
start_stacksTimers(s) ==
  IF thresholdMs <= 0 THEN s
  ELSE call([s EXCEPT !.timer = Some(s.nextId),
                      !.timeouts = @ \cup {s.nextId},
                      !.nextId = @ + 1],
            [kind |-> "setTimeout", id |-> s.nextId, ms |-> thresholdMs])

\* mutant: the threshold is not looked at
start_ignoresThreshold(s) ==
  LET s1 == IF IsSome(s.timer)
            THEN cancel(logging(s, "warn", "LongRunMonitor is already runninng"))
            ELSE s
  IN  call([s1 EXCEPT !.timer = Some(s1.nextId),
                      !.timeouts = @ \cup {s1.nextId},
                      !.nextId = @ + 1],
           [kind |-> "setTimeout", id |-> s1.nextId, ms |-> thresholdMs])

start(s) ==
  IF thresholdMs <= 0 THEN s
  ELSE LET s1 == IF IsSome(s.timer)
                 THEN cancel(logging(s, "warn", "LongRunMonitor is already runninng"))
                 ELSE s
       IN  call([s1 EXCEPT !.timer = Some(s1.nextId),
                           !.timeouts = @ \cup {s1.nextId},
                           !.nextId = @ + 1],
                [kind |-> "setTimeout", id |-> s1.nextId, ms |-> thresholdMs])

-----------------------------------------------------------------------------
(* RunTestListener *)

\* mutant: the event carries the default threshold, not the monitor's
onLongRun_defaultThreshold(s) ==
  IF IsSome(s.runInfo)
  THEN fire(s, [type |-> "long-run", threshold |-> DEFAULT_LONG_RUN_THRESHOLD,
                process |-> Get(s.runInfo).process,
                numTotalTestSuites |-> Get(s.runInfo).numTotalTestSuites])
  ELSE s

\* mutant: the event is fired only for a run whose suite count is known
onLongRun_needsSuiteCount(s) ==
  IF IsSome(s.runInfo) /\ IsSome(Get(s.runInfo).numTotalTestSuites)
  THEN fire(s, [type |-> "long-run", threshold |-> thresholdMs,
                process |-> Get(s.runInfo).process,
                numTotalTestSuites |-> Get(s.runInfo).numTotalTestSuites])
  ELSE s

onLongRun(s) ==
  IF IsSome(s.runInfo)
  THEN fire(s, [type |-> "long-run", threshold |-> thresholdMs,
                process |-> Get(s.runInfo).process,
                numTotalTestSuites |-> Get(s.runInfo).numTotalTestSuites])
  ELSE s

\* mutant: a repeating timer (setInterval): the timeout stays pending
timeoutExpires_repeating(s, id) == onLongRun(s)

\* the function handed to setTimeout; the runtime runs it once, when the
\* timeout id expires
timeoutExpires(s, id) ==
  [onLongRun([s EXCEPT !.timeouts = @ \ {id}]) EXCEPT !.timer = None]

\* mutant: the Run Info is dropped but the monitor is not cancelled
runEnded_keepsTimer(s) == [s EXCEPT !.runInfo = None]

runEnded(s) == [cancel(s) EXCEPT !.runInfo = None]

\* mutant: a run-start that finds a run live keeps the Run Info of that run
runStarted_keepsLiveInfo(s, info) ==
  start(IF IsSome(s.runInfo) THEN s ELSE [s EXCEPT !.runInfo = Some(info)])

runStarted(s, info) == start([s EXCEPT !.runInfo = Some(info)])

\* mutant: only empty text is ignored
shouldIgnoreOutput_emptyOnly(text) == IsEmptyText(text)

shouldIgnoreOutput(text) == IsEmptyText(text) \/ includesWatchUsage(text)

cleanupOutput(text) == StripControl(text, 1)

IsWatchType(type) == type \in {"watch-tests", "watch-all-tests"}

\* mutant: the response is not looked at
snapshotPromptResponse_ignoresResponse(s, response) ==
  fire(scheduleProcess(s, [type |-> "update-snapshot", updateSnapshot |-> FALSE,
                           baseRequest |-> Some(request)]),
       [type |-> "data", process |-> Proc, text |-> <<"Updating snapshots...">>,
        raw |-> None, newLine |-> Some(TRUE), isError |-> None])

\* the .then() callback of showInformationMessage
snapshotPromptResponse(s, response) ==
  IF response
  THEN fire(scheduleProcess(s, [type |-> "update-snapshot", updateSnapshot |-> FALSE,
                                baseRequest |-> Some(request)]),
            [type |-> "data", process |-> Proc, text |-> <<"Updating snapshots...">>,
             raw |-> None, newLine |-> Some(TRUE), isError |-> None])
  ELSE s

handleSnapshotTestFailuer(s, data) ==
  IF request.updateSnapshot THEN s
  ELSE IF settings.enableSnapshotUpdateMessages /\ SnapshotFailRegex(data)
       THEN call([s EXCEPT !.prompts = @ + 1],
                 [kind |-> "showInformationMessage",
                  msg |-> IF IsWatchType(request.type)
                          THEN "all files" ELSE "files in this run"])
       ELSE s

\* mutant: a process that is no watch-tests process is stopped
handleWatchNotSupportedError_stopsNonWatch(s, data) ==
  IF IS_OUTSIDE_REPOSITORY_REGEXP(data) \/ WATCH_IS_NOT_SUPPORTED_REGEXP(data)
  THEN IF request.type /= "watch-tests"
       THEN stop(logging(s, "warn", "detected watch not supported message in a not-watch process"))
       ELSE stop(scheduleProcess(
                   logging(s, "debug", "--watch is not supported, will start the --watchAll run instead"),
                   Request("watch-all-tests")))
  ELSE s

\* mutant: every watch-type process is rescheduled
handleWatchNotSupportedError_anyWatcher(s, data) ==
  IF IS_OUTSIDE_REPOSITORY_REGEXP(data) \/ WATCH_IS_NOT_SUPPORTED_REGEXP(data)
  THEN IF ~IsWatchType(request.type)
       THEN logging(s, "warn", "detected watch not supported message in a not-watch process")
       ELSE stop(scheduleProcess(
                   logging(s, "debug", "--watch is not supported, will start the --watchAll run instead"),
                   Request("watch-all-tests")))
  ELSE s

handleWatchNotSupportedError(s, data) ==
  IF IS_OUTSIDE_REPOSITORY_REGEXP(data) \/ WATCH_IS_NOT_SUPPORTED_REGEXP(data)
  THEN IF request.type /= "watch-tests"
       THEN logging(s, "warn", "detected watch not supported message in a not-watch process")
       ELSE stop(scheduleProcess(
                   logging(s, "debug", "--watch is not supported, will start the --watchAll run instead"),
                   Request("watch-all-tests")))
  ELSE s

\* mutant: the comparison with 'on-demand' is inverted
handleWatchProcessCrash_stoppedIsCrash(s) ==
  IF IsWatchType(request.type) /\ s.stopReason = Some("on-demand")
  THEN Some(<<"Jest process", request.type, "ended unexpectedly">>)
  ELSE None

\* mutant: the stop reason is not looked at
handleWatchProcessCrash_ignoresStopReason(s) ==
  IF IsWatchType(request.type)
  THEN Some(<<"Jest process", request.type, "ended unexpectedly">>)
  ELSE None

handleWatchProcessCrash(s) ==
  IF IsWatchType(request.type) /\ s.stopReason /= Some("on-demand")
  THEN Some(<<"Jest process", request.type, "ended unexpectedly">>)
  ELSE None

getNumTotalTestSuites(text) ==
  LET matched == RUN_START_TEST_SUITES_REGEX(text)
  IN  IF IsSome(matched) THEN Some(Number(Get(matched))) ELSE None

\* mutant: a run-start marker without a suite count starts no run
handleRunStart_needsCount(s, output) ==
  IF includesOnRunStart(output) /\ IsSome(getNumTotalTestSuites(output))
  THEN fire(runStarted(s, [process |-> Proc,
                           numTotalTestSuites |-> getNumTotalTestSuites(output)]),
            [type |-> "start", process |-> Proc])
  ELSE s

handleRunStart(s, output) ==
  IF includesOnRunStart(output)
  THEN fire(runStarted(s, [process |-> Proc,
                           numTotalTestSuites |-> getNumTotalTestSuites(output)]),
            [type |-> "start", process |-> Proc])
  ELSE s

handleRunComplete(s, output) ==
  IF includesOnRunComplete(output)
  THEN LET s1 == runEnded(s)
           matched == RUN_EXEC_ERROR(output)
           s2 == IF IsSome(matched)
                 THEN fire(s1, [type |-> "data", process |-> Proc,
                                text |-> <<Get(matched)>>, raw |-> None,
                                newLine |-> Some(TRUE), isError |-> Some(TRUE)])
                 ELSE s1
       IN  fire(s2, [type |-> "end", process |-> Proc])
  ELSE s

DataEvent(text, raw) ==
  [type |-> "data", process |-> Proc, text |-> text, raw |-> Some(raw),
   newLine |-> None, isError |-> None]

\* mutant: the watch check is skipped for a chunk that reports a snapshot failure
onExecutableStdErr_exclusiveChecks(s, message, raw) ==
  IF shouldIgnoreOutput(message) THEN s
  ELSE LET cleaned == cleanupOutput(raw)
           s1 == handleRunStart(s, message)
           s2 == fire(s1, DataEvent(message, cleaned))
           s3 == handleRunComplete(s2, message)
           s4 == handleSnapshotTestFailuer(s3, message)
       IN  IF SnapshotFailRegex(message) THEN s4
           ELSE handleWatchNotSupportedError(s4, message)

\* mutant: the chunk's data event is fired before the run-start is handled
onExecutableStdErr_dataFirst(s, message, raw) ==
  IF shouldIgnoreOutput(message) THEN s
  ELSE LET cleaned == cleanupOutput(raw)
           s1 == fire(s, DataEvent(message, cleaned))
           s2 == handleRunStart(s1, message)
           s3 == handleRunComplete(s2, message)
           s4 == handleSnapshotTestFailuer(s3, message)
       IN  handleWatchNotSupportedError(s4, message)

\* mutant: the run-complete marker is handled before the run-start marker
onExecutableStdErr_completeFirst(s, message, raw) ==
  IF shouldIgnoreOutput(message) THEN s
  ELSE LET cleaned == cleanupOutput(raw)
           s1 == handleRunComplete(s, message)
           s2 == fire(s1, DataEvent(message, cleaned))
           s3 == handleRunStart(s2, message)
           s4 == handleSnapshotTestFailuer(s3, message)
       IN  handleWatchNotSupportedError(s4, message)

onExecutableStdErr(s, message, raw) ==
  IF shouldIgnoreOutput(message) THEN s
  ELSE LET cleaned == cleanupOutput(raw)
           s1 == handleRunStart(s, message)
           s2 == fire(s1, DataEvent(message, cleaned))
           s3 == handleRunComplete(s2, message)
           s4 == handleSnapshotTestFailuer(s3, message)
       IN  handleWatchNotSupportedError(s4, message)

onExecutableJSON(s, data) == call(s, [kind |-> "updateWithData", data |-> data])

\* mutant: stdout text is searched for markers and recovery text as stderr is
onExecutableOutput_handlesMarkers(s, output, raw) ==
  IF ~shouldIgnoreOutput(output)
  THEN LET s1 == handleRunStart(s, output)
           s2 == fire(s1, DataEvent(output, raw))
           s3 == handleRunComplete(s2, output)
       IN  handleWatchNotSupportedError(s3, output)
  ELSE s

onExecutableOutput(s, output, raw) ==
  IF ~shouldIgnoreOutput(output) THEN fire(s, DataEvent(output, raw)) ELSE s

onTerminalError(s, data, raw) ==
  fire(s, [type |-> "data", process |-> Proc, text |-> data, raw |-> Some(raw),
           newLine |-> Some(TRUE), isError |-> Some(TRUE)])

onProcessStarting(s) ==
  logging(fire(s, [type |-> "process-start", process |-> Proc]),
          "debug", "onProcessStarting")

isProcessError(code) == IsSome(code) /\ Get(code) > 1

\* AbstractProcessListener.onProcessExit
superOnProcessExit(s, code, signal) ==
  IF isProcessError(code)
  THEN logging(s, "warn", "onProcessExit: process exit with code")
  ELSE s

\* mutant: the exit is reported by processExit as well
onProcessExit_firesExit(s, code, signal) ==
  fire([superOnProcessExit(runEnded(s), code, signal) EXCEPT !.exitCode = code],
       [type |-> "exit", process |-> Proc, error |-> None, code |-> code])

\* mutant: the run is not ended
onProcessExit_keepsRun(s, code, signal) ==
  [superOnProcessExit(s, code, signal) EXCEPT !.exitCode = code]

onProcessExit(s, code, signal) ==
  [superOnProcessExit(runEnded(s), code, signal) EXCEPT !.exitCode = code]

\* mutant: the exit event carries no code
onProcessClose_noCode(s) ==
  LET error == handleWatchProcessCrash(s)
  IN  fire(s, [type |-> "exit", process |-> Proc, error |-> error, code |-> None])

onProcessClose(s) ==
  LET error == handleWatchProcessCrash(s)
  IN  fire(s, [type |-> "exit", process |-> Proc, error |-> error, code |-> s.exitCode])

\* mutant: an event with no case is taken for the end of the process
onEvent_unexpectedEndsProcess(s, event, args) ==
  CASE event = "processStarting"  -> onProcessStarting(s)
    [] event = "executableStdErr" -> onExecutableStdErr(s, cleanAnsi(args[1]), args[1])
    [] event = "executableJSON"   -> onExecutableJSON(s, args[1])
    [] event = "executableOutput" -> onExecutableOutput(s, cleanAnsi(args[1]), args[1])
    [] event = "terminalError"    -> onTerminalError(s, cleanAnsi(args[1]), args[1])
    [] event = "processClose"     -> onProcessClose(s)
    [] event = "processExit"      -> onProcessExit(s, args[1], args[2])
    [] OTHER -> onProcessExit(logging(s, "warn", "received unexpected event"),
                              None, None)

\* AbstractProcessListener.onEvent: args is the payload, a tuple
onEvent(s, event, args) ==
  CASE event = "processStarting"  -> onProcessStarting(s)
    [] event = "executableStdErr" -> onExecutableStdErr(s, cleanAnsi(args[1]), args[1])
    [] event = "executableJSON"   -> onExecutableJSON(s, args[1])
    [] event = "executableOutput" -> onExecutableOutput(s, cleanAnsi(args[1]), args[1])
    [] event = "terminalError"    -> onTerminalError(s, cleanAnsi(args[1]), args[1])
    [] event = "processClose"     -> onProcessClose(s)
    [] event = "processExit"      -> onProcessExit(s, args[1], args[2])
    [] OTHER -> logging(s, "warn", "received unexpected event")

-----------------------------------------------------------------------------
(* ListTestFileListener.  The text of a listing process is kept finer than  *)
(* the run listener's: a text is the sequence of its lines, a line the      *)
(* sequence of its tokens, so that chunks can be appended to one another.   *)

EmptyString == << <<>> >>

TokOpen     == "["
TokClose    == "]"
TokComma    == ","
TokFileA    == "\"/a.test.js\""
TokFileB    == "\"/b.test.js\""
TokFileC    == "\"C:/w/c.test.js\""
TokEmptyStr == "\"\""
TokNoTests  == "No tests found"
TokBad      == "oops"
TokBoom     == "boom"
TokAnsi     == "ESC[2K"
\* the two parts of a control sequence that a chunk boundary has cut
TokAnsiHead == "ESC["
TokAnsiTail == "2K"

\* a + b on strings: the last line of a goes on with the first line of b
Concat(a, b) ==
  SubSeq(a, 1, Len(a) - 1) \o <<a[Len(a)] \o b[1]>> \o Tail(b)

\* a line without its control sequences: a whole sequence, and the two parts
\* of one when they stand next to each other; a part alone is no sequence
RECURSIVE cleanAnsiLine(_)
cleanAnsiLine(line) ==
  IF line = <<>> THEN <<>>
  ELSE IF line[1] = TokAnsi THEN cleanAnsiLine(Tail(line))
  ELSE IF Len(line) >= 2 /\ line[1] = TokAnsiHead /\ line[2] = TokAnsiTail
       THEN cleanAnsiLine(SubSeq(line, 3, Len(line)))
       ELSE <<line[1]>> \o cleanAnsiLine(Tail(line))

\* cleanAnsi of ../helpers, on a text of tokens
cleanAnsiTokens(text) == [i \in 1..Len(text) |-> cleanAnsiLine(text[i])]

\* a line that starts with "[" and ends with "]"
IsArrayLine(line) ==
  Len(line) >= 2 /\ line[1] = TokOpen /\ line[Len(line)] = TokClose

\* text.match(JsonArrayRegexp): the matches in text order (none: <<>>); with
\* the m flag ^ and $ anchor at line breaks, and . does not cross them
JsonArrayRegexp(text) == SelectSeq(text, IsArrayLine)

IsStringLiteral(tok) == tok \in {TokFileA, TokFileB, TokFileC, TokEmptyStr}

StringValue(tok) ==
  CASE tok = TokFileA    -> "/a.test.js"
    [] tok = TokFileB    -> "/b.test.js"
    [] tok = TokFileC    -> "C:/w/c.test.js"
    [] tok = TokEmptyStr -> ""

\* JSON.parse of a matched line: "[" and "]" around string literals separated
\* by commas; anything else throws
JSONparse(line) ==
  LET n == Len(line)
  IN  IF n = 2 THEN [ok |-> TRUE, value |-> <<>>]
      ELSE IF /\ n % 2 = 1
              /\ \A k \in 2..(n - 1) :
                    IF k % 2 = 0 THEN IsStringLiteral(line[k])
                    ELSE line[k] = TokComma
           THEN [ok |-> TRUE,
                 value |-> [k \in 1..((n - 1) \div 2) |-> StringValue(line[2 * k])]]
           ELSE [ok |-> FALSE]

\* vscode.Uri.file(f).fsPath on a POSIX host: a leading drive letter is
\* lower-cased
fsPath(f) == IF f = "C:/w/c.test.js" THEN "c:/w/c.test.js" ELSE f

IsTruthy(f) == f /= ""

\* files.filter((f) => f).map((f) => vscode.Uri.file(f).fsPath)
UriFiles(files) ==
  LET kept == SelectSeq(files, IsTruthy)
  IN  [k \in 1..Len(kept) |-> fsPath(kept[k])]

\* toErrorString(e) of ../helpers for the error JSON.parse throws
ParseErrorString ==
  << <<"SyntaxError: Unexpected token o in JSON at position 1">> >>

\* mutant: the files of a match are put before the files found so far
RECURSIVE ReduceFiles_newestFirst(_, _, _)
ReduceFiles_newestFirst(json, i, totalFiles) ==
  IF i > Len(json) THEN [ok |-> TRUE, value |-> totalFiles]
  ELSE LET parsed == JSONparse(json[i])
       IN  IF parsed.ok
           THEN ReduceFiles_newestFirst(json, i + 1, UriFiles(parsed.value) \o totalFiles)
           ELSE [ok |-> FALSE]

\* mutant: a match that does not parse is skipped
RECURSIVE ReduceFiles_skipsBad(_, _, _)
ReduceFiles_skipsBad(json, i, totalFiles) ==
  IF i > Len(json) THEN [ok |-> TRUE, value |-> totalFiles]
  ELSE LET parsed == JSONparse(json[i])
       IN  IF parsed.ok
           THEN ReduceFiles_skipsBad(json, i + 1, totalFiles \o UriFiles(parsed.value))
           ELSE ReduceFiles_skipsBad(json, i + 1, totalFiles)

\* json.reduce(...): the files of the matches from i on, after totalFiles;
\* the first match that does not parse throws
RECURSIVE ReduceFiles(_, _, _)
ReduceFiles(json, i, totalFiles) ==
  IF i > Len(json) THEN [ok |-> TRUE, value |-> totalFiles]
  ELSE LET parsed == JSONparse(json[i])
       IN  IF parsed.ok
           THEN ReduceFiles(json, i + 1, totalFiles \o UriFiles(parsed.value))
           ELSE [ok |-> FALSE]

\* this.onResult(files, error, exitCode)
onResult(s, files, error, code) ==
  call(s, [kind |-> "onResult", files |-> files, error |-> error, exitCode |-> code])

List_onExecutableOutput(s, data, raw) == [s EXCEPT !.buffer = Concat(@, data)]

\* mutant: the cleaned message is kept, not the raw text
List_onExecutableStdErr_keepsMessage(s, message, raw) ==
  [logging(s, "debug", "onExecutableStdErr") EXCEPT !.stderrOutput = Concat(@, message)]

List_onExecutableStdErr(s, message, raw) ==
  [logging(s, "debug", "onExecutableStdErr") EXCEPT !.stderrOutput = Concat(@, raw)]

List_onProcessExit(s, code, signal) ==
  [superOnProcessExit(s, code, signal) EXCEPT !.exitCode = code]

\* mutant: the failure report does not return
List_onProcessClose_fallsThrough(s) ==
  LET s1 == IF s.exitCode /= Some(0)
            THEN onResult(s, None, Some(s.stderrOutput), s.exitCode)
            ELSE s
      json == JsonArrayRegexp(s1.buffer)
  IN  IF json = <<>>
      THEN onResult(logging(s1, "debug", "no test file is found"), Some(<<>>), None, None)
      ELSE LET uriFiles == ReduceFiles(json, 1, <<>>)
           IN  IF uriFiles.ok
               THEN onResult(logging(s1, "debug", <<"got", Len(uriFiles.value), "test files">>),
                             Some(uriFiles.value), None, None)
               ELSE onResult(logging(s1, "warn", "failed to parse result:"),
                             None, Some(ParseErrorString), s1.exitCode)

\* mutant: only a recorded code other than 0 is a failure
List_onProcessClose_absentIsSuccess(s) ==
  IF IsSome(s.exitCode) /\ s.exitCode /= Some(0)
  THEN onResult(s, None, Some(s.stderrOutput), s.exitCode)
  ELSE LET json == JsonArrayRegexp(s.buffer)
       IN  IF json = <<>>
           THEN onResult(logging(s, "debug", "no test file is found"), Some(<<>>), None, None)
           ELSE LET uriFiles == ReduceFiles(json, 1, <<>>)
                IN  IF uriFiles.ok
                    THEN onResult(logging(s, "debug", <<"got", Len(uriFiles.value), "test files">>),
                                  Some(uriFiles.value), None, None)
                    ELSE onResult(logging(s, "warn", "failed to parse result:"),
                                  None, Some(ParseErrorString), s.exitCode)

List_onProcessClose(s) ==
  IF s.exitCode /= Some(0)
  THEN onResult(s, None, Some(s.stderrOutput), s.exitCode)
  ELSE LET json == JsonArrayRegexp(s.buffer)
       IN  IF json = <<>>
           THEN onResult(logging(s, "debug", "no test file is found"), Some(<<>>), None, None)
           ELSE LET uriFiles == ReduceFiles(json, 1, <<>>)
                IN  IF uriFiles.ok
                    THEN onResult(logging(s, "debug", <<"got", Len(uriFiles.value), "test files">>),
                                  Some(uriFiles.value), None, None)
                    ELSE onResult(logging(s, "warn", "failed to parse result:"),
                                  None, Some(ParseErrorString), s.exitCode)

\* AbstractProcessListener.onEvent on a ListTestFileListener: the handlers the
\* class overrides, the base class's for the rest
List_onEvent(s, event, args) ==
  CASE event = "processStarting"  -> onProcessStarting(s)
    [] event = "executableStdErr" ->
         List_onExecutableStdErr(s, cleanAnsiTokens(args[1]), args[1])
    [] event = "executableJSON"   -> logging(s, "debug", "onExecutableJSON")
    [] event = "executableOutput" ->
         List_onExecutableOutput(s, cleanAnsiTokens(args[1]), args[1])
    [] event = "terminalError"    -> logging(s, "error", "onTerminalError")
    [] event = "processClose"     -> List_onProcessClose(s)
    [] event = "processExit"      -> List_onProcessExit(s, args[1], args[2])
    [] OTHER -> logging(s, "warn", "received unexpected event")

-----------------------------------------------------------------------------
(* Inputs *)

ChunkStart5        == <<SegStart5, "">>
ChunkStart12       == <<SegStart12, SegPass, "">>
ChunkComplete      == <<SegComplete, "">>
ChunkExecError     == <<SegExecError, SegWritten, "">>
ChunkPass          == <<SegPass, "">>
ChunkSnapshot      == <<SegSnapshotAnsi, "">>
ChunkNoWatch       == <<SegNoWatch, "">>
ChunkOutside       == <<SegSuiteFailed, SegFatalOutside, "">>
ChunkOutsideUsage  == <<SegSuiteFailed, SegFatalOutside, SegWatchUsage, "">>
ChunkCompleteUsage == <<SegComplete, SegWatchUsage, "">>
ChunkAnsiOnly      == <<SegAnsiOnly>>
ChunkPassUsage     == <<SegPass, SegWatchUsage, "">>
ChunkExecErrorUsage  == <<SegExecError, SegWatchUsage, "">>
ChunkSnapshotNoWatch == <<SegSnapshot, SegNoWatch, "">>
ChunkStartBare       == <<SegStartBare, "">>
ChunkStartComplete   == <<SegStart5, SegPass, SegComplete, "">>
ChunkStartExecError  == <<SegStart12, SegExecError, "">>
ChunkMarkersNoWatch  == <<SegStart5, SegComplete, SegNoWatch, "">>

StdErrChunks ==
  {ChunkStart5, ChunkStart12, ChunkComplete, ChunkExecError, ChunkPass,
   ChunkSnapshot, ChunkNoWatch, ChunkOutside, ChunkOutsideUsage,
   ChunkCompleteUsage, ChunkAnsiOnly, ChunkExecErrorUsage,
   ChunkSnapshotNoWatch, ChunkStartBare, ChunkStartComplete,
   ChunkStartExecError}

StdOutChunks == {ChunkPass, ChunkAnsiOnly, ChunkPassUsage, ChunkMarkersNoWatch}

\* event tags that are not among the seven onEvent handles
UnexpectedEvents == {"processError"}

TerminalErrors == {<<"spawn jest ENOENT">>, ChunkMarkersNoWatch}

JsonResults == {[numTotalTestSuites |-> 5]}

\* processExit payloads: an exit code, or null with the signal that killed it
ExitArgs ==
  {<<Some(0), None>>, <<Some(2), None>>, <<None, Some("SIGKILL")>>}

Requests ==
  {Request("watch-tests"), Request("watch-all-tests"), Request("all-tests"),
   \* the request handleSnapshotTestFailuer schedules for an all-tests process
   [type |-> "update-snapshot", updateSnapshot |-> FALSE,
    baseRequest |-> Some(Request("all-tests"))],
   \* a request object that carries the property handleSnapshotTestFailuer reads
   [type |-> "all-tests", updateSnapshot |-> TRUE, baseRequest |-> None]}

MonitorLongRunOptions == {OptUnset, OptNum(1000), OptStr("off")}

-----------------------------------------------------------------------------
(* The state machine *)

Init ==
  /\ request \in Requests
  /\ stopReason = None
  /\ settings \in [enableSnapshotUpdateMessages : BOOLEAN,
                   monitorLongRun : MonitorLongRunOptions]
  /\ thresholdMs = LongRunMonitor(settings.monitorLongRun)
  /\ timer = None
  /\ timeouts = {}
  /\ nextId = 1
  /\ runInfo = None
  /\ exitCode = None
  /\ buffer = EmptyString
  /\ stderrOutput = EmptyString
  /\ prompts = 0
  /\ phase = "created"
  /\ dispatched = 0
  /\ log = <<>>

In(event, args) == [kind |-> "in", event |-> event, args |-> args]

Commit(s) ==
  /\ stopReason' = s.stopReason
  /\ timer' = s.timer
  /\ timeouts' = s.timeouts
  /\ nextId' = s.nextId
  /\ runInfo' = s.runInfo
  /\ exitCode' = s.exitCode
  /\ buffer' = s.buffer
  /\ stderrOutput' = s.stderrOutput
  /\ prompts' = s.prompts
  /\ log' = log \o s.out
  /\ UNCHANGED <<request, settings, thresholdMs>>

Dispatch(event, args) == Commit(onEvent(Cur(In(event, args)), event, args))

Alive == phase \in {"started", "exited"}

ProcessStarting ==
  /\ phase = "created"
  /\ phase' = "started"
  /\ Dispatch("processStarting", <<>>)
  /\ UNCHANGED dispatched

StdErr ==
  \E chunk \in StdErrChunks :
    /\ Alive /\ dispatched < MaxDispatch
    /\ dispatched' = dispatched + 1
    /\ Dispatch("executableStdErr", <<chunk>>)
    /\ UNCHANGED phase

StdOut ==
  \E chunk \in StdOutChunks :
    /\ Alive /\ dispatched < MaxDispatch
    /\ dispatched' = dispatched + 1
    /\ Dispatch("executableOutput", <<chunk>>)
    /\ UNCHANGED phase

Json ==
  \E data \in JsonResults :
    /\ Alive /\ dispatched < MaxDispatch
    /\ dispatched' = dispatched + 1
    /\ Dispatch("executableJSON", <<data>>)
    /\ UNCHANGED phase

TerminalError ==
  \E text \in TerminalErrors :
    /\ Alive /\ dispatched < MaxDispatch
    /\ dispatched' = dispatched + 1
    /\ Dispatch("terminalError", <<text>>)
    /\ UNCHANGED phase

ProcessExit ==
  \E args \in ExitArgs :
    /\ phase = "started"
    /\ phase' = "exited"
    /\ Dispatch("processExit", args)
    /\ UNCHANGED dispatched

\* 'close' follows 'exit', or comes alone when the process could not be spawned
ProcessClose ==
  /\ Alive
  /\ phase' = "closed"
  /\ Dispatch("processClose", <<exitCode, None>>)
  /\ UNCHANGED dispatched

\* the process emits an event onEvent has no case for
Unexpected ==
  \E event \in UnexpectedEvents :
    /\ Alive /\ dispatched < MaxDispatch
    /\ dispatched' = dispatched + 1
    /\ Dispatch(event, <<"payload">>)
    /\ UNCHANGED phase

\* the supervisor (or the user through it) stops the process
SupervisorStop ==
  /\ phase = "started" /\ stopReason = None
  /\ Commit([Cur(In("supervisorStop", <<>>)) EXCEPT !.stopReason = Some("on-demand")])
  /\ UNCHANGED <<phase, dispatched>>

\* the runtime runs the callback of a pending timeout
TimerExpires ==
  \E id \in timeouts :
    /\ Commit(timeoutExpires(Cur(In("timeout", <<id>>)), id))
    /\ UNCHANGED <<phase, dispatched>>

\* the user answers the snapshot prompt (response = TRUE) or dismisses it
PromptSettles ==
  \E response \in BOOLEAN :
    /\ prompts > 0
    /\ Commit(snapshotPromptResponse(
                [Cur(In("promptResponse", <<response>>)) EXCEPT !.prompts = @ - 1],
                response))
    /\ UNCHANGED <<phase, dispatched>>

Next ==
  \/ ProcessStarting
  \/ StdErr
  \/ StdOut
  \/ Json
  \/ TerminalError
  \/ Unexpected
  \/ ProcessExit
  \/ ProcessClose
  \/ SupervisorStop
  \/ TimerExpires
  \/ PromptSettles

Spec == Init /\ [][Next]_vars

\* the same listener under the runtime's guarantee that a timeout which stays
\* pending expires: its callback is run
\* a listener whose monitor is enabled (the default threshold or a configured
\* one), on a watch-tests or an all-tests process
LiveInit ==
  /\ Init
  /\ request \in {Request("watch-tests"), Request("all-tests")}
  /\ settings.enableSnapshotUpdateMessages
  /\ settings.monitorLongRun \in {OptUnset, OptNum(1000)}

SpecLive == LiveInit /\ [][Next]_vars /\ WF_vars(TimerExpires)

-----------------------------------------------------------------------------
(* A LongRunMonitor driven alone: its owner calls start() and cancel() in   *)
(* any order, the runtime expires the pending timeout at any moment.  The   *)
(* callback is the listener's onLongRun, with no run live.                  *)

\* values of the jest.monitorLongRun setting: unset, integers, strings
MonitorOptions ==
  {OptUnset, OptNull, OptNum(1), OptNum(1000), OptNum(0), OptNum(-5),
   OptStr("off"), OptStr("60000")}

MonitorInit ==
  /\ request = Request("all-tests")
  /\ stopReason = None
  /\ settings \in [enableSnapshotUpdateMessages : {FALSE},
                   monitorLongRun : MonitorOptions]
  /\ thresholdMs = LongRunMonitor(settings.monitorLongRun)
  /\ timer = None
  /\ timeouts = {}
  /\ nextId = 1
  /\ runInfo = None
  /\ exitCode = None
  /\ buffer = EmptyString
  /\ stderrOutput = EmptyString
  /\ prompts = 0
  /\ phase = "created"
  /\ dispatched = 0
  /\ log = <<>>

MonitorStart ==
  /\ dispatched < MaxMonitorOps
  /\ dispatched' = dispatched + 1
  /\ Commit(start(Cur(In("monitor.start", <<>>))))
  /\ UNCHANGED phase

MonitorCancel ==
  /\ dispatched < MaxMonitorOps
  /\ dispatched' = dispatched + 1
  /\ Commit(cancel(Cur(In("monitor.cancel", <<>>))))
  /\ UNCHANGED phase

MonitorNext ==
  \/ MonitorStart
  \/ MonitorCancel
  \/ TimerExpires

SpecMonitor == MonitorInit /\ [][MonitorNext]_vars

-----------------------------------------------------------------------------
(* A ListTestFileListener attached to one listing process *)

\* stdout of a listing process, as the chunks it may arrive in
ListOutFirstHalf  == << <<TokOpen, TokFileA, TokComma>> >>
ListOutSecondHalf == << <<TokFileB, TokClose>>, <<>> >>
ListOutArray      == << <<TokAnsi, TokOpen, TokFileA, TokComma, TokEmptyStr,
                         TokComma, TokFileC, TokClose>>, <<>> >>
ListOutEmptyArray == << <<TokOpen, TokClose>>, <<>> >>
ListOutNoTests    == << <<TokNoTests>>, <<>> >>
ListOutBad        == << <<TokOpen, TokBad, TokClose>>, <<>> >>
\* a control sequence before the array, cut by the chunk boundary
ListOutAnsiHead   == << <<TokAnsiHead>> >>
ListOutAnsiTail   == << <<TokAnsiTail, TokOpen, TokFileB, TokClose>>, <<>> >>

ListStdOutChunks ==
  {ListOutFirstHalf, ListOutSecondHalf, ListOutArray, ListOutEmptyArray,
   ListOutNoTests, ListOutBad, ListOutAnsiHead, ListOutAnsiTail}

ListStdErrChunks == {<< <<TokBoom>> >>, << <<TokAnsi, TokNoTests>>, <<>> >>}

\* processExit payloads of a listing process: 1 is jest's own failure code
ListExitArgs == ExitArgs \cup {<<Some(1), None>>}

ListInit ==
  /\ request = Request("list-test-files")
  /\ stopReason = None
  /\ settings = [enableSnapshotUpdateMessages |-> TRUE, monitorLongRun |-> OptUnset]
  \* a listing listener owns no monitor
  /\ thresholdMs = 0
  /\ timer = None
  /\ timeouts = {}
  /\ nextId = 1
  /\ runInfo = None
  /\ exitCode = None
  /\ buffer = EmptyString
  /\ stderrOutput = EmptyString
  /\ prompts = 0
  /\ phase = "created"
  /\ dispatched = 0
  /\ log = <<>>

ListDispatch(event, args) == Commit(List_onEvent(Cur(In(event, args)), event, args))

ListProcessStarting ==
  /\ phase = "created"
  /\ phase' = "started"
  /\ ListDispatch("processStarting", <<>>)
  /\ UNCHANGED dispatched

ListStdOut ==
  \E chunk \in ListStdOutChunks :
    /\ Alive /\ dispatched < MaxListChunks
    /\ dispatched' = dispatched + 1
    /\ ListDispatch("executableOutput", <<chunk>>)
    /\ UNCHANGED phase

ListStdErr ==
  \E chunk \in ListStdErrChunks :
    /\ Alive /\ dispatched < MaxListChunks
    /\ dispatched' = dispatched + 1
    /\ ListDispatch("executableStdErr", <<chunk>>)
    /\ UNCHANGED phase

ListTerminalError ==
  \E text \in TerminalErrors :
    /\ Alive /\ dispatched < MaxListChunks
    /\ dispatched' = dispatched + 1
    /\ ListDispatch("terminalError", <<text>>)
    /\ UNCHANGED phase

ListProcessExit ==
  \E args \in ListExitArgs :
    /\ phase = "started"
    /\ phase' = "exited"
    /\ ListDispatch("processExit", args)
    /\ UNCHANGED dispatched

ListProcessClose ==
  /\ Alive
  /\ phase' = "closed"
  /\ ListDispatch("processClose", <<exitCode, None>>)
  /\ UNCHANGED dispatched

ListNext ==
  \/ ListProcessStarting
  \/ ListStdOut
  \/ ListStdErr
  \/ ListTerminalError
  \/ ListProcessExit
  \/ ListProcessClose

SpecList == ListInit /\ [][ListNext]_vars

-----------------------------------------------------------------------------
(* Reading the trace *)

Markers == {i \in 1..Len(log) : log[i].kind = "in"}

MarkersOf(event) == {i \in Markers : log[i].event = event}

LastMarker(i) == i \in Markers /\ \A j \in Markers : j <= i

\* the calls made by the step whose marker is at i
StepEnd(i) ==
  IF \E j \in Markers : j > i
  THEN CHOOSE j \in Markers : j > i /\ \A k \in Markers : k > i => j <= k
  ELSE Len(log) + 1

Out(i) == SubSeq(log, i + 1, StepEnd(i) - 1)

IsEvent(e, type) == e.kind = "event" /\ e.ev.type = type

EventsAt(type) == {i \in 1..Len(log) : IsEvent(log[i], type)}

\* the positions of the step at i whose entry is an event of this type
EventsIn(i, type) == {k \in EventsAt(type) : i < k /\ k < StepEnd(i)}

\* the text a stderr step's handler receives
Message(i) == cleanAnsi(log[i].args[1])

\* stderr steps whose (non-suppressed) chunk holds a run-start marker
RunStartSteps ==
  {i \in MarkersOf("executableStdErr") :
     ~shouldIgnoreOutput(Message(i)) /\ includesOnRunStart(Message(i))}

\* the steps that deliver a chunk of either output stream
OutputSteps == MarkersOf("executableStdErr") \cup MarkersOf("executableOutput")

CallsAt(kind) == {k \in 1..Len(log) : log[k].kind = kind}

\* the timeouts set and neither cleared nor expired before position i
PendingBefore(i) ==
  {log[a].id : a \in {k \in CallsAt("setTimeout") : k < i}}
    \ ({log[c].id : c \in {k \in CallsAt("clearTimeout") : k < i}}
         \cup {log[m].args[1] : m \in {k \in MarkersOf("timeout") : k < i}})

\* the raw stderr text delivered before position i, in order of arrival
RECURSIVE StdErrTextBefore(_)
StdErrTextBefore(i) ==
  IF i <= 1 THEN EmptyString
  ELSE LET rest == StdErrTextBefore(i - 1)
       IN  IF log[i - 1].kind = "in" /\ log[i - 1].event = "executableStdErr"
           THEN Concat(rest, log[i - 1].args[1])
           ELSE rest

\* the stdout text delivered before position i, control sequences removed
RECURSIVE StdOutTextBefore(_)
StdOutTextBefore(i) ==
  IF i <= 1 THEN EmptyString
  ELSE LET rest == StdOutTextBefore(i - 1)
       IN  IF log[i - 1].kind = "in" /\ log[i - 1].event = "executableOutput"
           THEN Concat(rest, cleanAnsiTokens(log[i - 1].args[1]))
           ELSE rest

IsResultCall(e) == e.kind = "onResult"

\* the stdout text delivered before position i as the process wrote it
RECURSIVE RawStdOutBefore(_)
RawStdOutBefore(i) ==
  IF i <= 1 THEN EmptyString
  ELSE LET rest == RawStdOutBefore(i - 1)
       IN  IF log[i - 1].kind = "in" /\ log[i - 1].event = "executableOutput"
           THEN Concat(rest, log[i - 1].args[1])
           ELSE rest

\* what a listener that got text as its only stdout chunk, and then exit code
\* 0, hands to its callback at processClose
OneChunkResult(text) ==
  LET fresh == [Cur(In("processClose", <<>>)) EXCEPT
                  !.buffer = EmptyString, !.exitCode = Some(0)]
      fed == List_onEvent(fresh, "executableOutput", <<text>>)
  IN  SelectSeq(List_onProcessClose(fed).out, IsResultCall)

\* the code of the processExit delivered before position j, None without one
ExitCodeBefore(j) ==
  LET exits == {i \in MarkersOf("processExit") : i < j}
  IN  IF exits = {} THEN None ELSE log[CHOOSE i \in exits : TRUE].args[1]

\* the lines of the stdout text before j that start with "[" and end with "]"
ArrayLinesBefore(j) == SelectSeq(StdOutTextBefore(j), IsArrayLine)

\* "[" and "]" around string literals separated by commas
IsFileArray(line) ==
  \/ line = <<TokOpen, TokClose>>
  \/ /\ Len(line) % 2 = 1
     /\ \A k \in 2..(Len(line) - 1) :
           (k % 2 = 0 /\ IsStringLiteral(line[k])) \/ (k % 2 = 1 /\ line[k] = TokComma)

\* the non-empty entries of a file array, in order, as filesystem paths
EntriesOf(line) ==
  LET literals == SelectSeq(line, IsStringLiteral)
      values   == [k \in 1..Len(literals) |-> StringValue(literals[k])]
      kept     == SelectSeq(values, IsTruthy)
  IN  [k \in 1..Len(kept) |-> fsPath(kept[k])]

RECURSIVE AllEntries(_)
AllEntries(lines) ==
  IF lines = <<>> THEN <<>>
  ELSE EntriesOf(Head(lines)) \o AllEntries(Tail(lines))

\* the lines the reporter writes for the listener: run markers and the
\* "Test results written to" notice
IsMarkerLine(seg) ==
  seg \in {SegStart5, SegStart12, SegStartBare, SegComplete, SegExecError, SegWritten}

IsErrorData(e) == IsEvent(e, "data") /\ e.ev.isError = Some(TRUE)

\* the positions of the step at i that hold an error data event
ErrorDataIn(i) == {k \in EventsIn(i, "data") : IsErrorData(log[k])}

IsRecoveryCall(e) == e.kind \in {"scheduleProcess", "stop"}

RecoveryCalls(i) == SelectSeq(Out(i), IsRecoveryCall)

MatchesWatchNotSupported(text) ==
  IS_OUTSIDE_REPOSITORY_REGEXP(text) \/ WATCH_IS_NOT_SUPPORTED_REGEXP(text)

\* the marker of the step that made the call at position k
StepOf(k) == CHOOSE i \in Markers : i < k /\ k < StepEnd(i)

\* the ids setTimeout can hand out: one per delivered chunk at most
TimeoutIds == 1..MaxDispatch

\* the timeout id has expired and its callback has emitted a `long-run` event
LongRunFiredFor(id) ==
  \E i \in MarkersOf("timeout") :
     log[i].args[1] = id /\ EventsIn(i, "long-run") /= {}

\* the timeout id was cleared by the step of a run-complete marker, of a new
\* run-start or of processExit
EndedBeforeExpiry(id) ==
  \E c \in CallsAt("clearTimeout") :
     /\ log[c].id = id
     /\ \/ log[StepOf(c)].event = "processExit"
        \/ /\ log[StepOf(c)].event = "executableStdErr"
           /\ \/ includesOnRunComplete(Message(StepOf(c)))
              \/ includesOnRunStart(Message(StepOf(c)))

IsEventCall(e) == e.kind = "event"

\* the types of the events the step at i fired, in order
EventTypes(i) ==
  LET fired == SelectSeq(Out(i), IsEventCall)
  IN  [k \in 1..Len(fired) |-> fired[k].ev.type]

\* the ids of the timeouts the step at i set
TimeoutsSetIn(i) == {log[a].id : a \in {k \in CallsAt("setTimeout") : i < k /\ k < StepEnd(i)}}

\* the events that are no stderr text and no end of the process
NonStdErrEvents ==
  {"executableOutput", "executableJSON", "terminalError", "processStarting"}

-----------------------------------------------------------------------------
(* Claims *)

\* C1: every non-suppressed stderr chunk with a run-start marker emits exactly
\* one `start` event, which precedes the `data` event of the same chunk and of
\* every later chunk; the handler creates Run Info with the parsed suite count
\* and starts the Long-Run Monitor (a timeout is pending when the threshold is
\* positive), which is what the step leaves behind unless the same chunk also
\* completes the run.
C1_StartBeforeData ==
  \A i \in RunStartSteps :
     /\ Cardinality(EventsIn(i, "start")) = 1
     /\ \A k \in EventsIn(i, "start") :
           /\ \A d \in EventsAt("data") : d > i => d > k
           /\ \E d \in EventsIn(i, "data") : d > k
           /\ thresholdMs > 0 =>
                \E a \in (i + 1)..(k - 1) : log[a].kind = "setTimeout"
     /\ (LastMarker(i) /\ ~includesOnRunComplete(Message(i))) =>
           /\ runInfo = Some([process |-> Proc,
                              numTotalTestSuites |-> getNumTotalTestSuites(Message(i))])
           /\ thresholdMs > 0 => IsSome(timer) /\ Get(timer) \in timeouts

C1_Witness ==
  \E i \in RunStartSteps : \E j \in MarkersOf("executableStdErr") :
     /\ i < j /\ log[j].args[1] = ChunkPass
     /\ EventsIn(j, "data") /= {}
     /\ IsSome(runInfo) /\ IsSome(timer)

\* C2: every stderr chunk with a run-complete marker that follows a `start`
\* emits exactly one `end` event, destroys Run Info and disarms the monitor, so
\* that no `long-run` event follows it until a new `start`.
C2_RunCompleteEndsRun ==
  \A i \in MarkersOf("executableStdErr") :
     (/\ includesOnRunComplete(Message(i))
      /\ \E st \in EventsAt("start") :
            st < i /\ \A e \in EventsAt("end") : ~(st < e /\ e < i))
     => /\ Cardinality(EventsIn(i, "end")) = 1
        /\ \A lr \in EventsAt("long-run") :
              lr > i => \E st \in EventsAt("start") : i < st /\ st < lr
        /\ LastMarker(i) => (runInfo = None /\ timer = None)

\* C3: every expiry of the monitor's timeout runs the callback once: exactly one
\* `long-run` event is emitted, carrying the monitor's (positive) threshold and
\* the suite count captured by the latest run-start, the monitor is disarmed by
\* it, and no timeout expires twice.
C3_LongRunOnExpiry ==
  \A i \in MarkersOf("timeout") :
     /\ thresholdMs > 0
     /\ Len(Out(i)) = 1
     /\ IsEvent(log[i + 1], "long-run")
     /\ log[i + 1].ev.threshold = thresholdMs
     /\ \E s \in RunStartSteps :
           /\ s < i /\ \A s2 \in RunStartSteps : s2 < i => s2 <= s
           /\ log[i + 1].ev.numTotalTestSuites = getNumTotalTestSuites(Message(s))
     /\ \A j \in MarkersOf("timeout") : log[j].args = log[i].args => j = i
     /\ LastMarker(i) => (timer = None /\ log[i].args[1] \notin timeouts)

C3_Witness ==
  \E i \in MarkersOf("timeout") :
     /\ IsEvent(log[i + 1], "long-run")
     /\ log[i + 1].ev.threshold = 1000
     /\ log[i + 1].ev.numTotalTestSuites = Some(12)
     /\ \A e \in EventsAt("end") : e > i

\* C4 as stated: between any two `long-run` events lie an `end` event and,
\* after it, a new `start` event.
C4_EndAndStartBetweenLongRuns ==
  \A a, b \in EventsAt("long-run") :
     a < b => \E e \in EventsAt("end") : \E st \in EventsAt("start") :
                 a < e /\ e < st /\ st < b

\* C4, amended: between any two `long-run` events lies a new `start` event (a
\* run-start that replaces a live run re-arms the monitor without an `end`).
C4_StartBetweenLongRuns ==
  \A a, b \in EventsAt("long-run") :
     a < b => \E st \in EventsAt("start") : a < st /\ st < b

C4_Witness == Cardinality(EventsAt("long-run")) >= 2

\* C5: the `exit` event emitted at processClose carries a (non-empty) error
\* exactly when the request type is watch-tests or watch-all-tests and the
\* process was not stopped on demand.
C5_ExitErrorIffWatcherDied ==
  \A i \in MarkersOf("processClose") :
     /\ Cardinality(EventsIn(i, "exit")) = 1
     /\ \A k \in EventsIn(i, "exit") :
           /\ IsSome(log[k].ev.error) <=>
                (request.type \in {"watch-tests", "watch-all-tests"}
                   /\ stopReason /= Some("on-demand"))
           /\ IsSome(log[k].ev.error) => Get(log[k].ev.error) /= <<>>

C5_Witness ==
  \E k \in EventsAt("exit") :
     /\ request.type = "watch-all-tests"
     /\ stopReason = Some("on-demand")
     /\ log[k].ev.error = None

\* C6 as stated: the `exit` event is emitted exactly once per process lifetime
\* and only after processExit has been handled.
C6_ExitOnceAfterProcessExit ==
  /\ Cardinality(EventsAt("exit")) <= 1
  /\ phase = "closed" => Cardinality(EventsAt("exit")) = 1
  /\ \A k \in EventsAt("exit") : \E x \in MarkersOf("processExit") : x < k

\* C6, amended: the `exit` event is emitted exactly once per process lifetime,
\* by the handling of processClose; it carries the code recorded by processExit
\* when one was handled before, and no code otherwise.
C6_ExitOnceAtClose ==
  /\ Cardinality(EventsAt("exit")) <= 1
  /\ phase = "closed" <=> Cardinality(EventsAt("exit")) = 1
  /\ \A k \in EventsAt("exit") :
        /\ \E c \in MarkersOf("processClose") : k \in EventsIn(c, "exit")
        /\ \A x \in MarkersOf("processExit") : x < k /\ log[k].ev.code = log[x].args[1]
        /\ MarkersOf("processExit") = {} => log[k].ev.code = None

C6_Witness ==
  /\ phase = "closed"
  /\ MarkersOf("processExit") = {}
  /\ Cardinality(EventsAt("exit")) = 1

\* what C7 says of the stderr step at i
RecoversExactlyWhenWatchTests(i) ==
  IF request.type = "watch-tests"
  THEN /\ Len(RecoveryCalls(i)) = 2
       /\ RecoveryCalls(i)[1].kind = "scheduleProcess"
       /\ RecoveryCalls(i)[1].request = Request("watch-all-tests")
       /\ RecoveryCalls(i)[2].kind = "stop"
  ELSE RecoveryCalls(i) = <<>>

C8_RecoveryAtMostOnce ==
  /\ Cardinality({k \in 1..Len(log) :
        log[k].kind = "scheduleProcess" /\ log[k].request.type = "watch-all-tests"}) <= 1
  /\ Cardinality({k \in 1..Len(log) : log[k].kind = "stop"}) <= 1

\* C9: the snapshot prompt is shown for a stderr chunk only if the request is
\* not an update-snapshot request, snapshot-update messages are enabled and the
\* chunk matches the snapshot-failure pattern.
C9_PromptOnlyWhenAllowed ==
  \A i \in MarkersOf("executableStdErr") :
     (\E k \in (i + 1)..(StepEnd(i) - 1) : log[k].kind = "showInformationMessage")
     => /\ request.type /= "update-snapshot"
        /\ settings.enableSnapshotUpdateMessages
        /\ SnapshotFailRegex(Message(i))

\* C10: an affirmative answer to the snapshot prompt schedules exactly one
\* update-snapshot process whose baseRequest is the prompting process's request
\* and then emits one informational `data` event; a dismissed prompt schedules
\* nothing and emits nothing.
C10_PromptAnswer ==
  \A i \in MarkersOf("promptResponse") :
     IF log[i].args[1]
     THEN /\ Len(Out(i)) = 2
          /\ log[i + 1].kind = "scheduleProcess"
          /\ log[i + 1].request.type = "update-snapshot"
          /\ log[i + 1].request.baseRequest = Some(request)
          /\ IsEvent(log[i + 2], "data")
          /\ log[i + 2].ev.isError = None
     ELSE Out(i) = <<>>

C10_Witness ==
  \E i \in MarkersOf("promptResponse") :
     /\ log[i].args[1]
     /\ request.type = "watch-tests"
     /\ Len(Out(i)) = 2


C12_SuppressedChunkStillTransitions ==
  \A i \in MarkersOf("executableStdErr") :
     includesWatchUsage(Message(i)) =>
        /\ EventsIn(i, "data") = {}
        /\ includesOnRunStart(Message(i)) =>
              /\ EventsIn(i, "start") /= {}
              /\ thresholdMs > 0 =>
                    \E a \in CallsAt("setTimeout") : i < a /\ a < StepEnd(i)
        /\ includesOnRunComplete(Message(i)) =>
              /\ EventsIn(i, "end") /= {}
              /\ (LastMarker(i) /\ ~includesOnRunStart(Message(i))) => timer = None

\* C13: the processExit step emits no `end` and no `exit` event and leaves the
\* monitor disarmed, no Run Info and the delivered code recorded; the `exit`
\* event of the processClose that follows carries that code.
C13_ProcessExitRecordsCode ==
  \A i \in MarkersOf("processExit") :
     /\ EventsIn(i, "end") = {} /\ EventsIn(i, "exit") = {}
     /\ PendingBefore(StepEnd(i)) = {}
     /\ LastMarker(i) =>
           timer = None /\ runInfo = None /\ exitCode = log[i].args[1]
     /\ \A j \in MarkersOf("processClose") :
           j > i => /\ EventsIn(j, "exit") /= {}
                    /\ \A k \in EventsIn(j, "exit") : log[k].ev.code = log[i].args[1]

C13_Witness ==
  \E i \in MarkersOf("processExit") : \E j \in MarkersOf("processClose") :
     /\ i < j /\ log[i].args[1] = Some(2)
     /\ PendingBefore(i) /= {}
     /\ \E k \in EventsIn(j, "exit") : log[k].ev.code = Some(2)

\* C14: at most one Run Info is live and at most one timeout of the monitor is
\* pending; a run-start that finds a timeout pending clears it before it sets
\* the new one, and a timeout that was cleared never expires.
C14_OneRunOneTimer ==
  /\ Len(runInfo) <= 1
  /\ Cardinality(timeouts) <= 1
  /\ \A id \in timeouts : timer = Some(id)
  /\ PendingBefore(Len(log) + 1) = timeouts
  /\ \A i \in RunStartSteps : \A id \in PendingBefore(i) :
        \E c \in CallsAt("clearTimeout") : \E a \in CallsAt("setTimeout") :
           /\ i < c /\ c < a /\ a < StepEnd(i)
           /\ log[c].id = id /\ log[a].id /= id
  /\ \A i \in MarkersOf("timeout") : \A c \in CallsAt("clearTimeout") :
        c < i => log[c].id /= log[i].args[1]

C14_Witness ==
  \E i \in RunStartSteps : \E j \in MarkersOf("timeout") :
     /\ PendingBefore(i) /= {}
     /\ i < j /\ log[j].args[1] \notin PendingBefore(i)

\* C15: with monitoring disabled (a threshold that is not positive) no timeout
\* is ever set and no `long-run` event is ever emitted, while run-starts,
\* run-completes and processClose emit `start`, `end` and `exit` as usual.
C15_DisabledMonitor ==
  thresholdMs <= 0 =>
     /\ timer = None /\ timeouts = {}
     /\ CallsAt("setTimeout") = {} /\ MarkersOf("timeout") = {}
     /\ EventsAt("long-run") = {}
     /\ \A i \in RunStartSteps : Cardinality(EventsIn(i, "start")) = 1
     /\ \A i \in MarkersOf("executableStdErr") :
           (~IsEmptyText(Message(i)) /\ ~includesWatchUsage(Message(i))
              /\ includesOnRunComplete(Message(i))) =>
                 Cardinality(EventsIn(i, "end")) = 1
     /\ \A i \in MarkersOf("processClose") : Cardinality(EventsIn(i, "exit")) = 1

C15_Witness ==
  /\ settings.monitorLongRun = OptStr("off")
  /\ EventsAt("start") /= {} /\ EventsAt("end") /= {} /\ EventsAt("exit") /= {}


\* C16: cancel() leaves the monitor disarmed in every state and does nothing
\* else: on a monitor with no timeout pending (never armed, already fired, or
\* just cancelled) it makes no call at all, on an armed monitor it clears the
\* pending timeout and nothing more; applying it twice equals applying it once.
C16_CancelIdempotent ==
  /\ \A i \in MarkersOf("monitor.cancel") :
        /\ Out(i) = IF PendingBefore(i) = {} THEN <<>>
                    ELSE <<[kind |-> "clearTimeout",
                            id |-> CHOOSE id \in PendingBefore(i) : TRUE]>>
        /\ PendingBefore(StepEnd(i)) = {}
        /\ LastMarker(i) => timer = None /\ timeouts = {}
  /\ LET s == Cur(In("monitor.cancel", <<>>))
     IN  cancel(cancel(s)) = cancel(s) /\ cancel(s).timer = None

C16_Witness ==
  \E e \in MarkersOf("timeout") : \E i, j \in MarkersOf("monitor.cancel") :
     /\ log[1] = In("monitor.cancel", <<>>)
     /\ e < i /\ i < j /\ StepEnd(i) = j /\ LastMarker(j)

\* C17: once cancel() has run, or start() has run again, no timeout that was
\* set before it expires: the callback is invoked only for an arm-cycle that
\* was not cancelled, and at most once for it.
C17_CancelPreventsCallback ==
  /\ \A a \in CallsAt("setTimeout") :
     \A m \in MarkersOf("monitor.cancel") \cup MarkersOf("monitor.start") :
     \A e \in MarkersOf("timeout") :
        (a < m /\ m < e) => log[e].args[1] /= log[a].id
  /\ \A e, f \in MarkersOf("timeout") : log[e].args[1] = log[f].args[1] => e = f
  /\ \A e \in MarkersOf("timeout") : log[e].args[1] \in PendingBefore(e)

C17_Witness ==
  \E a \in CallsAt("setTimeout") : \E m \in MarkersOf("monitor.cancel") :
  \E e \in MarkersOf("timeout") :
     a < m /\ m < e /\ PendingBefore(m) = {log[a].id}

C19_UnexpectedEventDropped ==
  [][(/\ Len(log') > Len(log)
      /\ log'[Len(log) + 1].kind = "in"
      /\ log'[Len(log) + 1].event \in UnexpectedEvents)
       => /\ UNCHANGED <<runInfo, timer, timeouts, nextId, exitCode, stopReason,
                        buffer, stderrOutput, prompts, thresholdMs, request,
                        settings, phase>>
          /\ \A k \in (Len(log) + 2)..Len(log') :
                log'[k].kind = "logging" /\ log'[k].level = "warn"]_vars

C19_Witness ==
  \E i \in Markers :
     /\ log[i].event \in UnexpectedEvents /\ LastMarker(i)
     /\ IsSome(runInfo) /\ IsSome(timer)
     /\ Out(i) = <<[kind |-> "logging", level |-> "warn",
                    msg |-> "received unexpected event"]>>


\* C20: a listing listener calls its result callback only while it handles
\* processClose, and exactly once there, whatever the outcome: once the
\* process has closed the callback has been called once, before that never.
C20_CallbackExactlyOnce ==
  /\ \A k \in CallsAt("onResult") :
        \E i \in MarkersOf("processClose") : i < k /\ k < StepEnd(i)
  /\ \A i \in MarkersOf("processClose") :
        Cardinality({k \in CallsAt("onResult") : i < k /\ k < StepEnd(i)}) = 1
  /\ Cardinality(CallsAt("onResult")) = IF phase = "closed" THEN 1 ELSE 0

C20_Witness ==
  /\ phase = "closed" /\ exitCode = Some(0)
  /\ \E k \in CallsAt("onResult") :
        log[k].files = None /\ log[k].error = Some(ParseErrorString)


\* C21: when the processExit before processClose recorded a code other than
\* 0, the close step does nothing but call the callback with no file list, the
\* raw stderr chunks received so far appended in order, and that code, whatever
\* the stdout buffer holds.
C21_NonZeroExitReportsFailure ==
  \A j \in MarkersOf("processClose") :
     (IsSome(ExitCodeBefore(j)) /\ Get(ExitCodeBefore(j)) /= 0) =>
        Out(j) = <<[kind |-> "onResult", files |-> None,
                    error |-> Some(StdErrTextBefore(j)),
                    exitCode |-> ExitCodeBefore(j)]>>

C21_Witness ==
  \E j \in MarkersOf("processClose") :
     /\ ExitCodeBefore(j) = Some(2)
     /\ ArrayLinesBefore(j) /= <<>>
     /\ \E k \in CallsAt("onResult") :
           log[k].error = Some(<< <<TokBoom>> >>) /\ log[k].exitCode = Some(2)

\* C22: with exit code 0 and every array line of the accumulated stdout a
\* well-formed array of strings, the callback receives, with no error and no
\* exit code, the non-empty entries of those arrays (as filesystem paths) in the
\* order of the arrays and of the entries within each; with no array line it
\* receives the empty list.
C22_FilesInDiscoveryOrder ==
  \A j \in MarkersOf("processClose") :
     (/\ ExitCodeBefore(j) = Some(0)
      /\ \A k \in 1..Len(ArrayLinesBefore(j)) : IsFileArray(ArrayLinesBefore(j)[k])) =>
        /\ SelectSeq(Out(j), IsResultCall) =
              <<[kind |-> "onResult",
                 files |-> Some(AllEntries(ArrayLinesBefore(j))),
                 error |-> None, exitCode |-> None]>>
        /\ ArrayLinesBefore(j) = <<>> =>
              \E k \in CallsAt("onResult") : log[k].files = Some(<<>>)

C22_Witness ==
  \E j \in MarkersOf("processClose") :
     /\ ExitCodeBefore(j) = Some(0)
     /\ Len(ArrayLinesBefore(j)) = 2
     /\ \E k \in CallsAt("onResult") :
           log[k].files = Some(<<"/a.test.js", "c:/w/c.test.js",
                                 "/a.test.js", "/b.test.js">>)

\* C23: with exit code 0, when one of the array lines of the accumulated stdout
\* does not parse, the close step logs a warning and calls the callback once
\* with no file list, the stringified error and the recorded exit code (0); the
\* files of the arrays that did parse are not reported.
C23_ParseFailureReported ==
  \A j \in MarkersOf("processClose") :
     (/\ ExitCodeBefore(j) = Some(0)
      /\ \E k \in 1..Len(ArrayLinesBefore(j)) : ~IsFileArray(ArrayLinesBefore(j)[k])) =>
        Out(j) = <<[kind |-> "logging", level |-> "warn",
                    msg |-> "failed to parse result:"],
                   [kind |-> "onResult", files |-> None,
                    error |-> Some(ParseErrorString), exitCode |-> Some(0)]>>

C23_Witness ==
  \E j \in MarkersOf("processClose") :
     /\ ExitCodeBefore(j) = Some(0)
     /\ Len(ArrayLinesBefore(j)) = 2
     /\ EntriesOf(ArrayLinesBefore(j)[1]) /= <<>>
     /\ IsFileArray(ArrayLinesBefore(j)[1])
     /\ ~IsFileArray(ArrayLinesBefore(j)[2])
     /\ \E k \in CallsAt("onResult") : k > j /\ log[k].files = None


\* C24: no `data` event fired for a stderr chunk carries a marker line
\* (onRunStart, onRunComplete, "Test results written to"), neither in its text
\* nor in its raw field.
C24_NoMarkerLineInData ==
  \A i \in MarkersOf("executableStdErr") : \A k \in EventsIn(i, "data") :
     /\ \A n \in 1..Len(log[k].ev.text) : ~IsMarkerLine(log[k].ev.text[n])
     /\ IsSome(log[k].ev.raw) =>
           \A n \in 1..Len(Get(log[k].ev.raw)) : ~IsMarkerLine(Get(log[k].ev.raw)[n])

\* C25: a stderr chunk with a run-complete marker that carries an execError
\* emits exactly one error `data` event with that message, after the chunk's
\* ordinary `data` event and before its `end` event; without an execError the
\* chunk emits no error `data` event.
C25_ExecErrorSurfaced ==
  \A i \in MarkersOf("executableStdErr") :
     includesOnRunComplete(Message(i)) =>
        IF SegsWith(Message(i), {SegExecError})
        THEN /\ Cardinality(ErrorDataIn(i)) = 1
             /\ Cardinality(EventsIn(i, "end")) = 1
             /\ \A k \in ErrorDataIn(i) :
                   /\ log[k].ev.text = <<"boom">>
                   /\ \A d \in EventsIn(i, "data") \ ErrorDataIn(i) : d < k
                   /\ \A e \in EventsIn(i, "end") : k < e
        ELSE ErrorDataIn(i) = {}

\* C26: a processExit with a code above 1 is logged as a warning (and only
\* such a code is), fires no event, and the `exit` event of the processClose
\* that follows carries the code.
C26_ProcessErrorOnExitEvent ==
  \A i \in MarkersOf("processExit") :
     LET code == log[i].args[1]
         warned == \E k \in CallsAt("logging") :
                      i < k /\ k < StepEnd(i) /\ log[k].level = "warn"
     IN  /\ warned <=> (IsSome(code) /\ Get(code) > 1)
         /\ (IsSome(code) /\ Get(code) > 1) =>
               /\ \A k \in (i + 1)..(StepEnd(i) - 1) : log[k].kind /= "event"
               /\ \A j \in MarkersOf("processClose") :
                     j > i => /\ Cardinality(EventsIn(j, "exit")) = 1
                              /\ \A k \in EventsIn(j, "exit") : log[k].ev.code = code

C26_Witness ==
  \E i \in MarkersOf("processExit") : \E k \in EventsAt("exit") :
     /\ log[i].args[1] = Some(2) /\ i < k
     /\ log[k].ev.code = Some(2)
     /\ Out(i) /= <<>>

\* C27: on every non-suppressed stderr chunk both checks are made, whatever
\* the run state: the snapshot prompt opens exactly when the snapshot check
\* passes, the watch-all-tests recovery is made exactly when the chunk matches
\* an unsupported-watch pattern on a watch-tests process, and when both happen
\* the prompt comes first.
C27_BothChecksOnEveryChunk ==
  \A i \in MarkersOf("executableStdErr") :
     (~IsEmptyText(Message(i)) /\ ~includesWatchUsage(Message(i))) =>
        LET prompted  == {k \in CallsAt("showInformationMessage") : i < k /\ k < StepEnd(i)}
            recovered == {k \in CallsAt("scheduleProcess") : i < k /\ k < StepEnd(i)}
        IN  /\ prompted /= {} <=>
                 (/\ SnapshotFailRegex(Message(i))
                  /\ settings.enableSnapshotUpdateMessages
                  /\ ~request.updateSnapshot)
            /\ recovered /= {} <=>
                 (MatchesWatchNotSupported(Message(i)) /\ request.type = "watch-tests")
            /\ \A p \in prompted : \A q \in recovered : p < q

C27_Witness ==
  \E i \in MarkersOf("executableStdErr") :
     /\ log[i].args[1] = ChunkSnapshotNoWatch
     /\ request.type = "watch-tests"
     /\ IsSome(runInfo)
     /\ \E p \in CallsAt("showInformationMessage") : \E q \in CallsAt("stop") :
           i < p /\ p < q /\ q < StepEnd(i)

\* C28: once processClose has been handled the listener holds no Run Info and
\* its monitor is disarmed.
C28_NothingRetainedAfterClose ==
  phase = "closed" => runInfo = None /\ timer = None

\* C29 (as stated): no step of the listener calls process.stop().
C29_NeverStops == CallsAt("stop") = {}

\* C29 (amended): the listener calls process.stop() only in the
\* unsupported-watch recovery: in the step of a non-suppressed stderr chunk
\* that matches an unsupported-watch pattern, on a watch-tests process, right
\* after it has scheduled the watch-all-tests process.
C29_StopsOnlyInWatchRecovery ==
  \A k \in CallsAt("stop") :
     /\ request.type = "watch-tests"
     /\ log[k - 1] = [kind |-> "scheduleProcess", request |-> Request("watch-all-tests")]
     /\ \E i \in MarkersOf("executableStdErr") :
           /\ i < k /\ k < StepEnd(i)
           /\ ~IsEmptyText(Message(i)) /\ ~includesWatchUsage(Message(i))
           /\ MatchesWatchNotSupported(Message(i))

C29_Witness ==
  /\ CallsAt("stop") /= {}
  /\ stopReason = Some("on-demand")
  /\ phase = "started"

\* C30: when the listener has stopped the process (the unsupported-watch
\* recovery), the `exit` event of its processClose carries no error.
C30_OwnStopIsNoCrash ==
  \A j \in MarkersOf("processClose") :
     (\E k \in CallsAt("stop") : k < j) =>
        /\ EventsIn(j, "exit") /= {}
        /\ \A e \in EventsIn(j, "exit") : log[e].ev.error = None

C30_Witness ==
  \E j \in MarkersOf("processClose") : \E k \in CallsAt("stop") :
     /\ k < j /\ request.type = "watch-tests"
     /\ \E e \in EventsIn(j, "exit") : log[e].ev.error = None

\* C31: every `end` event is matched to a run: it is preceded by a `start`
\* event with no other `end` between the two, so that a run-complete marker
\* that arrives while no run is live emits no `end`.
C31_EndMatchedToRun ==
  \A e \in EventsAt("end") :
     \E st \in EventsAt("start") :
        st < e /\ \A e2 \in EventsAt("end") : ~(st < e2 /\ e2 < e)

\* C32: every `long-run` event carries the process and the suite count of the
\* most recent run-start, that is of the chunk that emitted the latest `start`
\* event before it: when a second run-start replaces a live Run Info, the
\* event carries the second count, never the first.
C32_LongRunCarriesLatestCount ==
  \A k \in EventsAt("long-run") :
     /\ log[k].ev.process = Proc
     /\ \E st \in EventsAt("start") :
           /\ st < k /\ \A st2 \in EventsAt("start") : st2 < k => st2 <= st
           /\ log[StepOf(st)].event = "executableStdErr"
           /\ log[k].ev.numTotalTestSuites =
                 getNumTotalTestSuites(Message(StepOf(st)))

C32_Witness ==
  \E k \in EventsAt("long-run") : \E a, b \in EventsAt("start") :
     /\ a < b /\ b < k
     /\ getNumTotalTestSuites(Message(StepOf(a))) = Some(5)
     /\ getNumTotalTestSuites(Message(StepOf(b))) = Some(12)
     /\ EventsAt("end") = {}
     /\ log[k].ev.numTotalTestSuites = Some(12)

\* C33: in every reachable state an armed monitor (a timer held, a timeout
\* pending) implies a live Run Info; and the callback of a timeout that finds
\* no Run Info makes no call: no `long-run` event is emitted.
C33_ArmedImpliesRunInfo ==
  /\ IsSome(timer) => IsSome(runInfo)
  /\ timeouts /= {} => IsSome(runInfo)
  /\ \A i \in MarkersOf("timeout") : EventsIn(i, "long-run") = {} => Out(i) = <<>>
  /\ LET s == [Cur(In("timeout", <<nextId>>)) EXCEPT !.runInfo = None]
     IN  timeoutExpires(s, nextId).out = s.out

C33_Witness ==
  /\ IsSome(timer) /\ Get(timer) \in timeouts /\ IsSome(runInfo)
  /\ \E e \in EventsAt("end") : \E st \in EventsAt("start") : e < st

\* C34: the `exit` event is the last Run Event of its process: no `start`,
\* `data`, `long-run` or `end` event follows it, neither from a timeout that
\* is still pending nor from a late answer to the snapshot prompt.
C34_ExitIsLast ==
  \A x \in EventsAt("exit") : \A k \in (x + 1)..Len(log) :
     ~(log[k].kind = "event"
         /\ log[k].ev.type \in {"start", "data", "long-run", "end"})

\* C35: when a run-start has armed the monitor, eventually a `long-run` event
\* is emitted for that arming, unless a run-complete marker, a new run-start
\* or processExit was delivered first (a timeout that stays pending expires).
C35_LongRunEventually ==
  \A id \in TimeoutIds :
     (id \in timeouts) ~> (LongRunFiredFor(id) \/ EndedBeforeExpiry(id))

C35_Witness ==
  \E id \in TimeoutIds :
     /\ LongRunFiredFor(id)
     /\ ~EndedBeforeExpiry(id)
     /\ phase = "closed"

\* C36: a non-suppressed stderr chunk that holds both the run-start and the
\* run-complete marker fires `start`, the chunk's `data`, the error `data` when
\* the marker carries an execError, and `end`, in this order and nothing else;
\* the timeout it set is cleared within the step and never expires, and the
\* step leaves no Run Info and the monitor disarmed.
C36_StartAndCompleteInOneChunk ==
  \A i \in MarkersOf("executableStdErr") :
     (/\ ~IsEmptyText(Message(i)) /\ ~includesWatchUsage(Message(i))
      /\ includesOnRunStart(Message(i)) /\ includesOnRunComplete(Message(i))) =>
        /\ EventTypes(i) = IF SegsWith(Message(i), {SegExecError})
                           THEN <<"start", "data", "data", "end">>
                           ELSE <<"start", "data", "end">>
        /\ Cardinality(ErrorDataIn(i)) =
              IF SegsWith(Message(i), {SegExecError}) THEN 1 ELSE 0
        /\ \A k \in ErrorDataIn(i) : \E d \in EventsIn(i, "data") \ ErrorDataIn(i) : d < k
        /\ thresholdMs > 0 => TimeoutsSetIn(i) /= {}
        /\ PendingBefore(StepEnd(i)) = {}
        /\ \A m \in MarkersOf("timeout") : log[m].args[1] \notin TimeoutsSetIn(i)
        /\ LastMarker(i) => runInfo = None /\ timer = None /\ timeouts = {}

C36_Witness ==
  \E i \in MarkersOf("executableStdErr") :
     /\ log[i].args[1] = ChunkStartExecError
     /\ PendingBefore(i) /= {}
     /\ TimeoutsSetIn(i) /= {}
     /\ EventTypes(i) = <<"start", "data", "data", "end">>
     /\ LastMarker(i) /\ runInfo = None /\ timer = None

\* C37: a step that handles executableOutput, executableJSON, terminalError or
\* processStarting, whatever its payload, leaves Run Info, the monitor (timer
\* and pending timeouts) and the stop reason as they were, fires no `start`,
\* `end`, `long-run` or `exit` event, sets and clears no timeout, and calls
\* neither scheduleProcess nor process.stop().
C37_OnlyStdErrDrivesRuns ==
  [][(/\ Len(log') > Len(log)
      /\ log'[Len(log) + 1].kind = "in"
      /\ log'[Len(log) + 1].event \in NonStdErrEvents)
       => /\ UNCHANGED <<runInfo, timer, timeouts, nextId, stopReason, exitCode>>
          /\ \A k \in (Len(log) + 2)..Len(log') :
                /\ log'[k].kind \notin
                      {"scheduleProcess", "stop", "setTimeout", "clearTimeout"}
                /\ log'[k].kind = "event" =>
                      log'[k].ev.type \notin {"start", "end", "long-run", "exit"}]_vars

C37_Witness ==
  \E i \in MarkersOf("executableOutput") : \E j \in MarkersOf("terminalError") :
     /\ log[i].args[1] = ChunkMarkersNoWatch
     /\ log[j].args[1] = ChunkMarkersNoWatch
     /\ request.type = "watch-tests"
     /\ EventTypes(i) = <<"data">> /\ EventTypes(j) = <<"data">>
     /\ EventsAt("start") = {} /\ CallsAt("stop") = {}
     /\ runInfo = None

\* C38: a non-suppressed stderr chunk that contains `onRunStart` but no
\* `numTotalTestSuites: <N>` starts a run all the same: it emits one `start`
\* and arms the monitor, the Run Info it leaves holds the process and no suite
\* count, and the `long-run` event of the timeout it set carries the threshold
\* and the process and no suite count.
C38_RunStartWithoutCount ==
  \A i \in MarkersOf("executableStdErr") :
     (/\ ~IsEmptyText(Message(i)) /\ ~includesWatchUsage(Message(i))
      /\ includesOnRunStart(Message(i))
      /\ RUN_START_TEST_SUITES_REGEX(Message(i)) = None) =>
        /\ Cardinality(EventsIn(i, "start")) = 1
        /\ thresholdMs > 0 => Cardinality(TimeoutsSetIn(i)) = 1
        /\ (LastMarker(i) /\ ~includesOnRunComplete(Message(i))) =>
              /\ runInfo = Some([process |-> Proc, numTotalTestSuites |-> None])
              /\ thresholdMs > 0 => IsSome(timer) /\ Get(timer) \in TimeoutsSetIn(i)
        /\ \A m \in MarkersOf("timeout") :
              log[m].args[1] \in TimeoutsSetIn(i) =>
                 Out(m) = <<[kind |-> "event",
                             ev |-> [type |-> "long-run", threshold |-> thresholdMs,
                                     process |-> Proc,
                                     numTotalTestSuites |-> None]]>>

C38_Witness ==
  \E i \in MarkersOf("executableStdErr") : \E m \in MarkersOf("timeout") :
     /\ log[i].args[1] = ChunkStartBare
     /\ log[m].args[1] \in TimeoutsSetIn(i)
     /\ \E k \in EventsIn(m, "long-run") :
           log[k].ev.numTotalTestSuites = None /\ log[k].ev.threshold = 60000

\* C39: a listing listener reports a file list only when the processExit
\* before processClose recorded the code 0; when no processExit was handled
\* before the close, or the one handled carried no code (null: killed by a
\* signal), the close step does nothing but call the callback with no file
\* list, the stderr text received so far and no exit code, whatever the stdout
\* buffer holds.
C39_AbsentCodeReportsFailure ==
  /\ \A k \in CallsAt("onResult") :
        IsSome(log[k].files) => ExitCodeBefore(StepOf(k)) = Some(0)
  /\ \A j \in MarkersOf("processClose") :
        ExitCodeBefore(j) = None =>
           Out(j) = <<[kind |-> "onResult", files |-> None,
                       error |-> Some(StdErrTextBefore(j)),
                       exitCode |-> None]>>

C39_Witness ==
  \E j \in MarkersOf("processClose") : \E x \in MarkersOf("processExit") :
     /\ x < j /\ log[x].args = <<None, Some("SIGKILL")>>
     /\ ArrayLinesBefore(j) /= <<>>
     /\ \A n \in 1..Len(ArrayLinesBefore(j)) : IsFileArray(ArrayLinesBefore(j)[n])
     /\ StdErrTextBefore(j) /= EmptyString
     /\ \E k \in CallsAt("onResult") : log[k].files = None /\ log[k].exitCode = None

\* C40: the listing result does not depend on how stdout is cut into chunks:
\* with exit code 0, the callback receives what it would receive had the same
\* stdout text been delivered as one chunk, whatever the stderr chunks between.
C40_ChunkingIndependent ==
  \A j \in MarkersOf("processClose") :
     ExitCodeBefore(j) = Some(0) =>
        SelectSeq(Out(j), IsResultCall) = OneChunkResult(RawStdOutBefore(j))

=============================================================================
